---- MODULE Spec2Model ----
(***************************************************************************)
(* State-machine model of the entry points of ooxml-slides-manipulator's   *)
(* Python tooling: the creation scripts that POST {fn, args} to the remote *)
(* web app, and the capture scripts that drive a browser to take a         *)
(* screenshot.  Every entry point is one run of a single thread of         *)
(* control; the remote service, the browser driver and the file system    *)
(* are the environment and answer nondeterministically.                    *)
(***************************************************************************)
EXTENDS Integers, Sequences, FiniteSets, TLC

\* ---------------------------------------------------------------- bounds
\* number of distinct presentation ids the remote service can hand out
MaxId == 2
\* number of distinct values datetime.now() can take during a run
MaxTime == 2
\* number of times the same entry point is run, one run after the other
MaxRuns == 2
\* longest dash-separated token sequence handed to the extractor
MaxTokens == 3

\* ------------------------------------------------------ program constants
PostTimeout == 30
PauseBetweenRequests == 2
QuickSettle == 5
PublicSettle == 5
ExportDelay == 5
PublishDelay == 10
GetTimeout == 30
ComparisonTimeout == 60
EditSettle == 8
SimpleSettle == 8
FinalSettle == 5
DebugSettle == 10
DebugLinger == 5

Ids == 1..MaxId
NoId == 0
\* the presentation id hard-coded in the capture scripts
KnownId == MaxId + 1

Url(kind, id) == <<kind, id>>

\* ------------------------------------------------------- remote responses
\* A response body, described by what the Python code can observe of it:
\*   json        response.json() parses
\*   top         the parsed value is an "object", an "array" or a "scalar"
\*               (string, number, null)
\*   hasResult   the object has a 'result' key
\*   resultDict  result is itself an object
\*   success     result['success'] is truthy
\*   id          result['presentationId'] (NoId: key absent)
\*   error       result has an 'error' key
Body(j, d, h, r, s, i, e) ==
    [json |-> j, top |-> d, hasResult |-> h, resultDict |-> r,
     success |-> s, id |-> i, error |-> e]

NotJson == Body(FALSE, "scalar", FALSE, FALSE, FALSE, NoId, FALSE)
JsonArray == Body(TRUE, "array", FALSE, FALSE, FALSE, NoId, FALSE)
JsonScalar == Body(TRUE, "scalar", FALSE, FALSE, FALSE, NoId, FALSE)
DictNoResult == Body(TRUE, "object", FALSE, FALSE, FALSE, NoId, FALSE)
ResultNotDict == Body(TRUE, "object", TRUE, FALSE, FALSE, NoId, FALSE)
RemoteFailure(e) == Body(TRUE, "object", TRUE, TRUE, FALSE, NoId, e)
RemoteSuccess(i) == Body(TRUE, "object", TRUE, TRUE, TRUE, i, FALSE)

Bodies ==
    {NotJson, JsonArray, JsonScalar, DictNoResult, ResultNotDict}
        \cup {RemoteFailure(e) : e \in BOOLEAN}
        \cup {RemoteSuccess(i) : i \in Ids \cup {NoId}}

\* statuses the creation endpoint answers a POST with
HttpStatuses == {200, 500}
\* statuses docs.google.com answers a GET with; the body is raw bytes,
\* possibly none
ExportStatuses == {200, 401, 404}

\* an optional element of a result (fontPair, colorPalette): missing or
\* null, there with the keys the client reads, or there without them
Optionals == {"absent", "whole", "partial"}

NoResponse == [status |-> 0, body |-> NotJson, size |-> 0]
PostResponses == [status : HttpStatuses, body : Bodies, size : {1}]
GetResponses == [status : ExportStatuses, body : {NotJson}, size : {0, 1}]

\* the faults requests.post / requests.get raise instead of returning
TransportFaults == {"Timeout", "ConnectionError"}

\* a remote call: which request it is, and the timeout= it was issued with
NoCall == [method |-> "none", tag |-> "none", bounded |-> FALSE, timeout |-> 0]
Call(m, tag, t) == [method |-> m, tag |-> tag, bounded |-> TRUE, timeout |-> t]
CallNoTimeout(m, tag) ==
    [method |-> m, tag |-> tag, bounded |-> FALSE, timeout |-> 0]

VARIABLES
    script,         \* the entry point being run ("none": not started)
    pc,             \* position of the single thread of control
    caught,         \* exception bound by the except clause being run
    ret,            \* value returned by the entry point
    raised,         \* exception that escaped the entry point ("none")
    printed,        \* lines written to standard output, in order
    inflight,       \* the remote call the thread is blocked in
    response,       \* the response the last remote call returned
    events,         \* history: requests sent, answered, handled, faulted
    presentations,  \* create_font_comparison: the list being built
    presentation_data,   \* screenshot_presentation.py: main's local
    screenshot_results,  \* screenshot_presentation.py: main's local
    presentation_id,     \* test_export_after_create / test_pub_access local
    driver,         \* the local name 'driver': unbound, None, open, quit
    launches,       \* number of browser instances launched in this run
    steps,          \* driver operations performed, in order
    timestamp,      \* datetime.now() as read by the capture
    files,          \* files written under screenshots/
    run,            \* which run of the entry point this is (1, 2, ...)
    clock,          \* wall clock: the last time datetime.now() returned
    comparison_data,  \* get_before_after_authenticated.py: result['result']
    statuses,       \* status_code of the export responses kept in locals
    todo,           \* items a for loop has still to visit
    palette_url,    \* the palette URL tokens handed to the extractor
    palette         \* what the extractor returned for them

control == <<script, pc, caught, ret, raised>>
remote == <<inflight, response, events>>
data == <<presentations, presentation_data, screenshot_results,
          presentation_id>>
capture == <<driver, launches, steps, timestamp, files>>

world == <<run, clock>>
locals == <<comparison_data, statuses, todo>>
extraction == <<palette_url, palette>>
others == <<world, locals, extraction>>

vars == <<control, printed, remote, data, capture, others>>

Ev(kind, tag, arg) == [ev |-> kind, tag |-> tag, arg |-> arg]
Line(kind, what, detail) == [line |-> kind, what |-> what, detail |-> detail]
Path(name, key) == [name |-> name, key |-> key]
Step(op, target, arg) == [op |-> op, target |-> target, arg |-> arg]

Unset == [kind |-> "unset"]
NoneValue == [kind |-> "None"]
PathValue(p) == [kind |-> "path", path |-> p]
\* the directory after open(path, 'wb') and f.write(content) went through
Written(fs, path, r, size) ==
    {f \in fs : f.path # path} \cup {[path |-> path, run |-> r, size |-> size]}

\* None where a path is expected
NoPath == Path("None", 0)

\* the values the locals and the histories of a run start with
FreshRun ==
    /\ caught = "none"
    /\ ret = Unset
    /\ raised = "none"
    /\ printed = <<>>
    /\ inflight = NoCall
    /\ response = NoResponse
    /\ events = <<>>
    /\ presentations = <<>>
    /\ presentation_data = Unset
    /\ screenshot_results = Unset
    /\ presentation_id = NoId
    /\ driver = "unbound"
    /\ launches = 0
    /\ steps = <<>>
    /\ timestamp = 0
    /\ comparison_data = Unset
    /\ statuses = <<>>
    /\ todo = <<>>

Init ==
    /\ script = "none"
    /\ pc = "start"
    /\ FreshRun
    /\ files = {}
    /\ run = 1
    /\ clock = 0
    /\ palette_url = <<>>
    /\ palette = Unset

\* --------------------------------------------------------- entry points
Scripts ==
    {"create_font_comparison", "quick_screenshot", "final_screenshot",
     "debug_screenshot", "screenshot_presentation", "test_api",
     "test_export_after_create", "test_pub_access",
     "get_before_after_authenticated", "simple_screenshot",
     "export_screenshot", "test_export_direct"}

EntryPoint(s) ==
    CASE s = "create_font_comparison" -> "cfc_before_post"
      [] s = "quick_screenshot" -> "q_launch"
      [] s = "final_screenshot" -> "f_install"
      [] s = "debug_screenshot" -> "d_install"
      [] s = "screenshot_presentation" -> "sp_post"
      [] s = "test_api" -> "api_post"
      [] s = "test_export_after_create" -> "tea_post"
      [] s = "test_pub_access" -> "tpa_post"
      [] s = "get_before_after_authenticated" -> "gba_post"
      [] s = "simple_screenshot" -> "ss_entry"
      [] s = "export_screenshot" -> "ex_makedirs"
      [] s = "test_export_direct" -> "ted_makedirs"

\* the interpreter starts one of the scripts
Start(s) ==
    /\ script = "none"
    /\ script' = s
    /\ pc' = EntryPoint(s)
    /\ UNCHANGED <<others, caught, ret, raised, printed, remote, data,
                   capture>>

\* the entry point, having ended, is run again: a new process with fresh
\* locals; the files under screenshots/ and the wall clock carry over
Restart ==
    /\ pc = "done"
    /\ run < MaxRuns
    /\ run' = run + 1
    /\ pc' = EntryPoint(script)
    /\ caught' = "none"
    /\ ret' = Unset
    /\ raised' = "none"
    /\ printed' = <<>>
    /\ inflight' = NoCall
    /\ response' = NoResponse
    /\ events' = <<>>
    /\ presentations' = <<>>
    /\ presentation_data' = Unset
    /\ screenshot_results' = Unset
    /\ presentation_id' = NoId
    /\ driver' = "unbound"
    /\ launches' = 0
    /\ steps' = <<>>
    /\ timestamp' = 0
    /\ comparison_data' = Unset
    /\ statuses' = <<>>
    /\ todo' = <<>>
    /\ UNCHANGED <<script, files, clock, extraction>>

\* ------------------------------------------------------------ exceptions
\* statements inside the try block of each capture script
quick_try == {"q_launch", "q_get", "q_sleep", "q_save", "q_print"}
final_try ==
    {"f_install", "f_launch", "f_get", "f_sleep", "f_save", "f_print",
     "f_quit"}
debug_try ==
    {"d_install", "d_launch", "d_get", "d_sleep", "d_inspect", "d_save",
     "d_linger", "d_quit"}

sp_try ==
    {"sp_launch", "sp_makedirs", "sp_pub_get", "sp_pub_sleep", "sp_pub_save",
     "sp_edit_get", "sp_edit_sleep", "sp_edit_save", "sp_summary"}

api_try == {"api_post", "api_wait", "api_handle", "api_fonts"}

tpa_try == {"tpa_get", "tpa_pub_wait", "tpa_pub_handle"}

gba_try == {"gba_thumb_wait", "gba_thumb_handle"}
ex_try == {"ex_png_get", "ex_png_wait", "ex_png_handle", "ex_svg_get",
           "ex_svg_wait", "ex_svg_handle", "ex_return"}
ted_try == {"ted_wait", "ted_handle"}
ss_try == {"ss_launch", "ss_makedirs", "ss_get", "ss_sleep", "ss_save",
           "ss_print", "ss_return"}

\* The except clause guarding the statement at a position, "uncaught"
\* when the statement is not inside any try block.
Handler(p) ==
    IF p \in quick_try THEN "q_except"
    ELSE IF p \in final_try THEN "f_except"
    ELSE IF p \in debug_try THEN "d_except"
    ELSE IF p \in sp_try THEN "sp_except"
    ELSE IF p \in api_try THEN "api_except"
    ELSE IF p \in tpa_try THEN "tpa_except"
    ELSE IF p \in gba_try THEN "gba_thumb_except"
    ELSE IF p \in ss_try THEN "ss_except"
    ELSE IF p \in ex_try THEN "ex_except"
    ELSE IF p \in ted_try THEN "ted_except"
    ELSE "uncaught"

\* An exception raised at the current position: control moves to the
\* enclosing except clause, or the exception leaves the entry point.
Raise(e) ==
    IF Handler(pc) = "uncaught"
    THEN /\ pc' = "done"
         /\ raised' = e
         /\ caught' = caught
    ELSE /\ pc' = Handler(pc)
         /\ raised' = raised
         /\ caught' = e

\* ---------------------------------------------------------- remote calls
\* where control continues when the blocking call returns a response
OnReturn(p) ==
    CASE p = "cfc_before_wait" -> "cfc_before_handle"
      [] p = "cfc_after_wait" -> "cfc_after_handle"
      [] p = "sp_wait" -> "sp_handle"
      [] p = "api_wait" -> "api_handle"
      [] p = "tea_wait" -> "tea_handle"
      [] p = "tea_export_wait" -> "tea_export_handle"
      [] p = "tpa_wait" -> "tpa_handle"
      [] p = "tpa_pub_wait" -> "tpa_pub_handle"
      [] p = "gba_wait" -> "gba_handle"
      [] p = "ex_png_wait" -> "ex_png_handle"
      [] p = "ted_wait" -> "ted_handle"
      [] p = "ex_svg_wait" -> "ex_svg_handle"
      [] p = "gba_thumb_wait" -> "gba_thumb_handle"

\* requests.post / requests.get returns a response
\* history only: what the remote service says it created with this answer
Reported(tag, r) ==
    IF r.status = 200 /\ r.body.success
    THEN <<Ev("created", tag, r.body.id)>>
    ELSE <<>>

RemoteResponds ==
    /\ inflight # NoCall
    /\ \E r \in IF inflight.method = "POST" THEN PostResponses
                ELSE GetResponses :
         /\ response' = r
         /\ events' = Append(events, Ev("response", inflight.tag, r.status))
                          \o Reported(inflight.tag, r)
    /\ inflight' = NoCall
    /\ pc' = OnReturn(pc)
    /\ UNCHANGED <<others, script, caught, ret, raised, printed, data,
                   capture>>

\* requests.post / requests.get raises: the endpoint is unreachable, or
\* the timeout the call was issued with expires (a call issued without
\* timeout= never times out)
RemoteFaults ==
    /\ inflight # NoCall
    /\ \E f \in TransportFaults :
         /\ f = "Timeout" => inflight.bounded
         /\ events' = Append(events, Ev(f, inflight.tag, inflight.timeout))
         /\ Raise(f)
    /\ inflight' = NoCall
    /\ UNCHANGED <<others, script, ret, printed, response, data, capture>>

\* ------------------------------------------- create_font_comparison.py
\* response handling that trusts the body whatever the HTTP status
cfc_outcome_ignores_status(r) ==
    IF ~r.body.json THEN [exc |-> "ValueError", created |-> FALSE]
    ELSE IF r.body.top # "object"
        THEN [exc |-> "AttributeError", created |-> FALSE]
    ELSE IF r.body.hasResult /\ ~r.body.resultDict
        THEN [exc |-> "AttributeError", created |-> FALSE]
    ELSE IF ~r.body.success THEN [exc |-> "none", created |-> FALSE]
    ELSE IF r.body.id = NoId THEN [exc |-> "KeyError", created |-> FALSE]
    ELSE [exc |-> "none", created |-> TRUE]

\* Outcome of the response handling block (lines 24-39 / 51-66): the
\* exception it raises, or whether an entry is appended.
cfc_outcome(r) ==
    IF r.status # 200 THEN [exc |-> "none", created |-> FALSE]
    ELSE IF ~r.body.json THEN [exc |-> "ValueError", created |-> FALSE]
    ELSE IF r.body.top # "object"
        THEN [exc |-> "AttributeError", created |-> FALSE]
    ELSE IF r.body.hasResult /\ ~r.body.resultDict
        THEN [exc |-> "AttributeError", created |-> FALSE]
    ELSE IF ~r.body.success THEN [exc |-> "none", created |-> FALSE]
    ELSE IF r.body.id = NoId THEN [exc |-> "KeyError", created |-> FALSE]
    ELSE [exc |-> "none", created |-> TRUE]

cfc_entry(type, id) ==
    [type |-> type, id |-> id,
     edit_url |-> Url("edit", id), pub_url |-> Url("pub", id)]

\* requests.post(web_app_url, json=<type>_payload, timeout=30)
cfc_post(type, here, next) ==
    /\ pc = here
    /\ inflight' = Call("POST", type, PostTimeout)
    /\ events' = Append(events, Ev("send", type, PostTimeout))
    /\ pc' = next
    /\ UNCHANGED <<others, script, caught, ret, raised, printed, response,
                   data, capture>>

\* if <type>_response.status_code == 200: ... else: ...
cfc_handle(type, here, next) ==
    /\ pc = here
    /\ LET o == cfc_outcome(response) IN
         IF o.exc # "none"
         THEN /\ Raise(o.exc)
              /\ UNCHANGED <<events, presentations, printed>>
         ELSE /\ presentations' =
                    IF o.created
                    THEN Append(presentations,
                                cfc_entry(type, response.body.id))
                    ELSE presentations
              /\ printed' = Append(printed,
                    Line(IF o.created THEN "created" ELSE "failed", type,
                         "none"))
              /\ events' = Append(events, Ev("handled", type,
                                              response.status))
              /\ pc' = next
              /\ UNCHANGED <<caught, raised>>
    /\ UNCHANGED <<others, script, ret, inflight, response, capture,
                   presentation_data, screenshot_results, presentation_id>>

\* variant: the styled payload is posted where the baseline one belongs
cfc_styled_first == cfc_post("AFTER", "cfc_before_post", "cfc_before_wait")

cfc_before_post == cfc_post("BEFORE", "cfc_before_post", "cfc_before_wait")

cfc_before_handle == cfc_handle("BEFORE", "cfc_before_handle", "cfc_pause")

\* time.sleep(2)
cfc_pause ==
    /\ pc = "cfc_pause"
    /\ events' = Append(events, Ev("sleep", "pause", PauseBetweenRequests))
    /\ pc' = "cfc_after_post"
    /\ UNCHANGED <<others, script, caught, ret, raised, printed, inflight,
                   response, data, capture>>

cfc_after_post == cfc_post("AFTER", "cfc_after_post", "cfc_after_wait")

cfc_after_handle == cfc_handle("AFTER", "cfc_after_handle", "cfc_report")

\* lines 68-89: print the comparison and return the list
cfc_report ==
    /\ pc = "cfc_report"
    /\ ret' = [kind |-> "list", val |-> presentations]
    /\ printed' = Append(printed, Line("comparison", "report", "none"))
    /\ pc' = "done"
    /\ UNCHANGED <<others, script, caught, raised, remote, data, capture>>

create_font_comparison ==
    \/ cfc_before_post
    \/ cfc_before_handle
    \/ cfc_pause
    \/ cfc_after_post
    \/ cfc_after_handle
    \/ cfc_report

\* ------------------------------------------------------ driver operations
\* what driver.save_screenshot can do: write the image, write an empty
\* file, or write nothing and return False (it does not raise on I/O error)
SaveOutcomes == {"written", "empty", "nothing"}

\* a step of the try block that does not touch the driver state but may
\* raise (ChromeDriverManager().install(), reading driver.title, ...)
drv_plain(here, next, fault) ==
    /\ pc = here
    /\ \/ /\ pc' = next
          /\ UNCHANGED <<caught, raised>>
       \/ Raise(fault)
    /\ UNCHANGED <<others, script, ret, printed, remote, data, capture>>

\* driver = webdriver.Chrome(...)
drv_launch(here, next) ==
    /\ pc = here
    /\ \/ /\ driver' = "open"
          /\ launches' = launches + 1
          /\ pc' = next
          /\ UNCHANGED <<caught, raised>>
       \/ /\ Raise("launch failed")
          /\ UNCHANGED <<driver, launches>>
    /\ UNCHANGED <<others, script, ret, printed, remote, data, steps,
                   timestamp, files>>

\* driver.get(url)
drv_get(here, next, url) ==
    /\ pc = here
    /\ \/ /\ steps' = Append(steps, Step("navigate", url, 0))
          /\ pc' = next
          /\ UNCHANGED <<caught, raised>>
       \/ /\ Raise("navigation failed")
          /\ UNCHANGED steps
    /\ UNCHANGED <<others, script, ret, printed, remote, data, driver,
                   launches, timestamp, files>>

\* time.sleep(secs) inside a capture
drv_sleep(here, next, url, secs) ==
    /\ pc = here
    /\ steps' = Append(steps, Step("settle", url, secs))
    /\ pc' = next
    /\ UNCHANGED <<others, script, caught, ret, raised, printed, remote, data,
                   driver, launches, timestamp, files>>

\* os.makedirs('screenshots', exist_ok=True); driver.save_screenshot(path)
drv_save(here, next, url, path) ==
    /\ pc = here
    /\ \/ \E o \in SaveOutcomes :
            /\ files' =
                 IF o = "nothing" THEN files
                 ELSE {f \in files : f.path # path}
                        \cup {[path |-> path, run |-> run,
                               size |-> IF o = "written" THEN 1 ELSE 0]}
            /\ steps' = Append(steps, Step("capture", url, 0))
            /\ pc' = next
            /\ UNCHANGED <<caught, raised>>
       \/ /\ Raise("capture failed")
          /\ UNCHANGED <<steps, files>>
    /\ UNCHANGED <<others, script, ret, printed, remote, data, driver,
                   launches, timestamp>>

\* os.makedirs('screenshots', exist_ok=True); timestamp = datetime.now()...
\* The stamp has one-second resolution; every capture that follows it
\* sleeps for seconds before it writes, so a later run that meets a file of
\* an earlier run reads a later stamp.
drv_makedirs(here, next) ==
    /\ pc = here
    /\ \/ /\ \E t \in (clock + 1)..MaxTime :
                /\ timestamp' = t
                /\ clock' = t
          /\ pc' = next
          /\ UNCHANGED <<caught, raised>>
       \/ /\ Raise("makedirs failed")
          /\ UNCHANGED <<timestamp, clock>>
    /\ UNCHANGED <<run, locals, extraction, script, ret, printed, remote,
                   data, driver, launches, steps, files>>

\* the success prints that end the try block
drv_print(here, next, strategy) ==
    /\ pc = here
    /\ printed' = Append(printed, Line("saved", strategy, "none"))
    /\ pc' = next
    /\ UNCHANGED <<others, script, caught, ret, raised, remote, data,
                   capture>>

\* -------------------------------------------------- quick_screenshot.py
q_launch == drv_launch("q_launch", "q_get")
q_get == drv_get("q_get", "q_sleep", Url("pub", KnownId))
q_sleep == drv_sleep("q_sleep", "q_save", Url("pub", KnownId), QuickSettle)
q_save ==
    drv_save("q_save", "q_print", Url("pub", KnownId),
             Path("font_pair_demo_working.png", 0))
q_print == drv_print("q_print", "q_finally", "explicit-driver")

\* except Exception as e: print(f"Error: {e}")
q_except ==
    /\ pc = "q_except"
    /\ printed' = Append(printed, Line("error", "explicit-driver", caught))
    /\ pc' = "q_finally"
    /\ UNCHANGED <<others, script, caught, ret, raised, remote, data,
                   capture>>

\* finally: if 'driver' in locals(): driver.quit()
q_finally ==
    /\ pc = "q_finally"
    /\ driver' = IF driver # "unbound" THEN "quit" ELSE driver
    /\ ret' = NoneValue
    /\ pc' = "done"
    /\ UNCHANGED <<others, script, caught, raised, printed, remote, data,
                   launches, steps, timestamp, files>>

quick_screenshot ==
    \/ q_launch
    \/ q_get
    \/ q_sleep
    \/ q_save
    \/ q_print
    \/ q_except
    \/ q_finally

\* -------------------------------------------------- final_screenshot.py
\* service = Service(ChromeDriverManager().install())
f_install == drv_plain("f_install", "f_launch", "install failed")
f_launch == drv_launch("f_launch", "f_get")
f_get == drv_get("f_get", "f_sleep", Url("pub", KnownId))
f_sleep == drv_sleep("f_sleep", "f_save", Url("pub", KnownId), FinalSettle)
f_save ==
    drv_save("f_save", "f_print", Url("pub", KnownId),
             Path("working_presentation_demo.png", 0))
f_print == drv_print("f_print", "f_quit", "managed-driver")

\* driver.quit(); return screenshot_path
f_quit ==
    /\ pc = "f_quit"
    /\ driver' = "quit"
    /\ ret' = PathValue(Path("working_presentation_demo.png", 0))
    /\ pc' = "done"
    /\ UNCHANGED <<others, script, caught, raised, printed, remote, data,
                   launches, steps, timestamp, files>>

\* except Exception as e: print(f"Error: {e}"); return None
f_except ==
    /\ pc = "f_except"
    /\ printed' = Append(printed, Line("error", "managed-driver", caught))
    /\ ret' = NoneValue
    /\ pc' = "done"
    /\ UNCHANGED <<others, script, caught, raised, remote, data, capture>>

final_screenshot ==
    \/ f_install
    \/ f_launch
    \/ f_get
    \/ f_sleep
    \/ f_save
    \/ f_print
    \/ f_quit
    \/ f_except

\* -------------------------------------------------- debug_screenshot.py
d_install == drv_plain("d_install", "d_launch", "install failed")
d_launch == drv_launch("d_launch", "d_get")
d_get == drv_get("d_get", "d_sleep", Url("pub", KnownId))
d_sleep ==
    drv_sleep("d_sleep", "d_inspect", Url("pub", KnownId),
              DebugSettle)
\* print(driver.title); print(driver.current_url)
d_inspect == drv_plain("d_inspect", "d_save", "session lost")
d_save ==
    drv_save("d_save", "d_print", Url("pub", KnownId),
             Path("debug_presentation.png", 0))
d_print == drv_print("d_print", "d_linger", "visible-fallback")

\* time.sleep(5) before the browser is closed
d_linger ==
    /\ pc = "d_linger"
    /\ steps' = Append(steps, Step("linger", Url("pub", KnownId), DebugLinger))
    /\ pc' = "d_quit"
    /\ UNCHANGED <<others, script, caught, ret, raised, printed, remote, data,
                   driver, launches, timestamp, files>>

\* driver.quit(); return screenshot_path
d_quit ==
    /\ pc = "d_quit"
    /\ driver' = "quit"
    /\ ret' = PathValue(Path("debug_presentation.png", 0))
    /\ pc' = "done"
    /\ UNCHANGED <<others, script, caught, raised, printed, remote, data,
                   launches, steps, timestamp, files>>

\* except Exception as e: print(...); traceback.print_exc(); return None
d_except ==
    /\ pc = "d_except"
    /\ printed' = Append(printed, Line("error", "visible-fallback", caught))
    /\ ret' = NoneValue
    /\ pc' = "done"
    /\ UNCHANGED <<others, script, caught, raised, remote, data, capture>>

debug_screenshot ==
    \/ d_install
    \/ d_launch
    \/ d_get
    \/ d_sleep
    \/ d_inspect
    \/ d_save
    \/ d_print
    \/ d_linger
    \/ d_quit
    \/ d_except

\* ------------------------------------- scripts/screenshot_presentation.py
\* variant of sp_outcome: the success flag of the body is not consulted
sp_outcome_ignores_success(r) ==
    IF r.status # 200 THEN [exc |-> "none", val |-> NoneValue]
    ELSE IF ~r.body.json THEN [exc |-> "ValueError", val |-> NoneValue]
    ELSE IF r.body.top = "scalar"
        THEN [exc |-> "TypeError", val |-> NoneValue]
    ELSE IF r.body.top = "array" \/ ~r.body.hasResult
        THEN [exc |-> "none", val |-> NoneValue]
    ELSE IF ~r.body.resultDict
        THEN [exc |-> "AttributeError", val |-> NoneValue]
    ELSE [exc |-> "none",
          val |-> [kind |-> "data",
                   presentation_id |-> r.body.id,
                   edit_url |-> Url("edit", r.body.id),
                   pub_url |-> Url("pub", r.body.id)]]

\* create_presentation_via_api, lines 32-53: what the function does with
\* the response: the exception it raises, or the value it returns
sp_outcome(r) ==
    IF r.status # 200 THEN [exc |-> "none", val |-> NoneValue]
    ELSE IF ~r.body.json THEN [exc |-> "ValueError", val |-> NoneValue]
    ELSE IF r.body.top = "scalar"
        THEN [exc |-> "TypeError", val |-> NoneValue]
    ELSE IF r.body.top = "array" \/ ~r.body.hasResult
        THEN [exc |-> "none", val |-> NoneValue]
    ELSE IF ~r.body.resultDict
        THEN [exc |-> "AttributeError", val |-> NoneValue]
    ELSE IF r.body.success
        THEN [exc |-> "none",
              val |-> [kind |-> "data",
                       presentation_id |-> r.body.id,
                       edit_url |-> Url("edit", r.body.id),
                       pub_url |-> Url("pub", r.body.id)]]
    ELSE [exc |-> "none", val |-> NoneValue]

\* Python truthiness of a value held by a local
Truthy(v) == v.kind \notin {"None", "unset"}

\* response = requests.post(web_app_url, json=payload)
sp_post ==
    /\ pc = "sp_post"
    /\ inflight' = CallNoTimeout("POST", "create")
    /\ events' = Append(events, Ev("send", "create", 0))
    /\ pc' = "sp_wait"
    /\ UNCHANGED <<others, script, caught, ret, raised, printed, response,
                   data, capture>>

\* the rest of create_presentation_via_api; main binds presentation_data
sp_handle ==
    /\ pc = "sp_handle"
    /\ LET o == sp_outcome(response) IN
         IF o.exc # "none"
         THEN /\ Raise(o.exc)
              /\ UNCHANGED <<events, presentation_data, printed>>
         ELSE /\ presentation_data' = o.val
              /\ printed' = Append(printed,
                    Line(IF Truthy(o.val) THEN "created" ELSE "failed",
                         "create", "none"))
              /\ events' = Append(events, Ev("handled", "create",
                                              response.status))
              /\ pc' = "sp_main_check"
              /\ UNCHANGED <<caught, raised>>
    /\ UNCHANGED <<others, script, ret, inflight, response, capture,
                   presentations, screenshot_results, presentation_id>>

\* main: if not presentation_data: print(...); return
sp_main_check ==
    /\ pc = "sp_main_check"
    /\ IF ~Truthy(presentation_data)
       THEN /\ printed' = Append(printed, Line("failed", "main", "none"))
            /\ ret' = NoneValue
            /\ pc' = "done"
       ELSE /\ pc' = "sp_guard"
            /\ UNCHANGED <<printed, ret>>
    /\ UNCHANGED <<others, script, caught, raised, remote, data, capture>>

\* screenshot_presentation: if not presentation_data: return; driver = None
sp_guard ==
    /\ pc = "sp_guard"
    /\ IF ~Truthy(presentation_data)
       THEN /\ printed' = Append(printed, Line("failed", "no data", "none"))
            /\ screenshot_results' = NoneValue
            /\ pc' = "sp_main_result"
            /\ UNCHANGED driver
       ELSE /\ driver' = "None"
            /\ pc' = "sp_launch"
            /\ UNCHANGED <<printed, screenshot_results>>
    /\ UNCHANGED <<others, script, caught, ret, raised, remote, presentations,
                   presentation_data, presentation_id, launches, steps,
                   timestamp, files>>

sp_launch == drv_launch("sp_launch", "sp_makedirs")

sp_makedirs == drv_makedirs("sp_makedirs", "sp_pub_get")

sp_pub_get == drv_get("sp_pub_get", "sp_pub_sleep", presentation_data.pub_url)

sp_pub_sleep_long ==
    drv_sleep("sp_pub_sleep", "sp_pub_save", presentation_data.pub_url,
              DebugSettle)

sp_pub_sleep ==
    drv_sleep("sp_pub_sleep", "sp_pub_save", presentation_data.pub_url,
              PublicSettle)

sp_pub_save ==
    drv_save("sp_pub_save", "sp_edit_get", presentation_data.pub_url,
             Path("font_demo_public", timestamp))

sp_edit_get_wrong_target ==
    drv_get("sp_edit_get", "sp_edit_sleep", presentation_data.pub_url)

sp_edit_get ==
    drv_get("sp_edit_get", "sp_edit_sleep", presentation_data.edit_url)

sp_edit_sleep ==
    drv_sleep("sp_edit_sleep", "sp_edit_save", presentation_data.edit_url,
              EditSettle)

sp_edit_save ==
    drv_save("sp_edit_save", "sp_summary", presentation_data.edit_url,
             Path("font_demo_edit", timestamp))

\* print the summary; return {'pub_screenshot': ..., 'edit_screenshot': ...}
sp_summary ==
    /\ pc = "sp_summary"
    /\ printed' = Append(printed, Line("saved", "summary", "none"))
    /\ screenshot_results' =
         [kind |-> "paths",
          pub_screenshot |-> Path("font_demo_public", timestamp),
          edit_screenshot |-> Path("font_demo_edit", timestamp)]
    /\ pc' = "sp_finally"
    /\ UNCHANGED <<others, script, caught, ret, raised, remote, presentations,
                   presentation_data, presentation_id, capture>>

\* except Exception as e: print(f"Screenshot error: {str(e)}"); return None
sp_except ==
    /\ pc = "sp_except"
    /\ printed' = Append(printed, Line("error", "screenshot", caught))
    /\ screenshot_results' = NoneValue
    /\ pc' = "sp_finally"
    /\ UNCHANGED <<others, script, caught, ret, raised, remote, presentations,
                   presentation_data, presentation_id, capture>>

\* finally: if driver: driver.quit()
sp_finally ==
    /\ pc = "sp_finally"
    /\ driver' = IF driver = "open" THEN "quit" ELSE driver
    /\ pc' = "sp_main_result"
    /\ UNCHANGED <<others, script, caught, ret, raised, printed, remote, data,
                   launches, steps, timestamp, files>>

\* main: report whether screenshot_results is truthy
sp_main_result ==
    /\ pc = "sp_main_result"
    /\ printed' = Append(printed,
          Line(IF Truthy(screenshot_results) THEN "completed" ELSE "failed",
               "main", "none"))
    /\ ret' = NoneValue
    /\ pc' = "done"
    /\ UNCHANGED <<others, script, caught, raised, remote, data, capture>>

screenshot_presentation ==
    \/ sp_post
    \/ sp_handle
    \/ sp_main_check
    \/ sp_guard
    \/ sp_launch
    \/ sp_makedirs
    \/ sp_pub_get
    \/ sp_pub_sleep
    \/ sp_pub_save
    \/ sp_edit_get
    \/ sp_edit_sleep
    \/ sp_edit_save
    \/ sp_summary
    \/ sp_except
    \/ sp_finally
    \/ sp_main_result

\* ------------------------------------------------------------ test_api.py
\* lines 20-49: the exception raised while the response is examined
api_outcome(r) ==
    IF r.status # 200 THEN [exc |-> "none", created |-> FALSE]
    ELSE IF ~r.body.json THEN [exc |-> "ValueError", created |-> FALSE]
    ELSE IF r.body.top = "scalar"
        THEN [exc |-> "TypeError", created |-> FALSE]
    ELSE IF r.body.top = "array" \/ ~r.body.hasResult
        THEN [exc |-> "none", created |-> FALSE]
    ELSE IF ~r.body.resultDict
        THEN [exc |-> "AttributeError", created |-> FALSE]
    ELSE [exc |-> "none", created |-> r.body.success]

\* try: response = requests.post(web_app_url, json=payload, timeout=30)
api_post ==
    /\ pc = "api_post"
    /\ inflight' = Call("POST", "create", PostTimeout)
    /\ events' = Append(events, Ev("send", "create", PostTimeout))
    /\ pc' = "api_wait"
    /\ UNCHANGED <<others, script, caught, ret, raised, printed, response,
                   data, capture>>

\* if response.status_code == 200: ... else: ... (still inside the try)
api_handle ==
    /\ pc = "api_handle"
    /\ LET o == api_outcome(response) IN
         IF o.exc # "none"
         THEN /\ Raise(o.exc)
              /\ UNCHANGED <<events, printed, ret, presentation_data>>
         ELSE /\ printed' = Append(printed,
                    Line(IF o.created THEN "created" ELSE "failed",
                         "create", "none"))
              /\ events' = Append(events, Ev("handled", "create",
                                              response.status))
              /\ UNCHANGED <<caught, raised>>
              /\ IF o.created
                 THEN /\ \E fp \in Optionals : \E cp \in Optionals :
                            presentation_data' =
                               [kind |-> "result", id |-> response.body.id,
                                fontPair |-> fp, colorPalette |-> cp]
                      /\ pc' = "api_fonts"
                      /\ ret' = ret
                 ELSE /\ ret' = NoneValue
                      /\ pc' = "done"
                      /\ UNCHANGED presentation_data
    /\ UNCHANGED <<others, script, inflight, response, presentations,
                   screenshot_results, presentation_id, capture>>

\* the lines an optional element of the result prints: its value when it
\* is there, a notice when it is not; indexing an incomplete one raises
api_optional(name, v) ==
    IF v = "absent" THEN <<Line("unavailable", name, "none")>>
    ELSE <<Line("value", name, "none")>>

\* a check that takes the font pair for granted
api_fonts_requires_pair ==
    /\ pc = "api_fonts"
    /\ IF presentation_data.fontPair # "whole"
       THEN /\ Raise("TypeError")
            /\ UNCHANGED <<printed, ret>>
       ELSE /\ printed' = printed
                   \o api_optional("fontPair", presentation_data.fontPair)
                   \o api_optional("colorPalette",
                                   presentation_data.colorPalette)
            /\ ret' = NoneValue
            /\ pc' = "done"
            /\ UNCHANGED <<caught, raised>>
    /\ UNCHANGED <<others, script, remote, data, capture>>

\* lines 35-46: font_pair = presentation_data.get('fontPair') ...
\* if font_pair: print(...) else: print("... not available") and the same
\* for the colour palette
api_fonts ==
    /\ pc = "api_fonts"
    /\ IF presentation_data.fontPair = "partial"
       THEN /\ Raise("KeyError")
            /\ UNCHANGED <<printed, ret>>
       ELSE IF presentation_data.colorPalette = "partial"
       THEN /\ printed' = printed
                   \o api_optional("fontPair", presentation_data.fontPair)
            /\ Raise("KeyError")
            /\ UNCHANGED ret
       ELSE /\ printed' = printed
                   \o api_optional("fontPair", presentation_data.fontPair)
                   \o api_optional("colorPalette",
                                   presentation_data.colorPalette)
            /\ ret' = NoneValue
            /\ pc' = "done"
            /\ UNCHANGED <<caught, raised>>
    /\ UNCHANGED <<others, script, remote, data, capture>>

\* except Exception as e: print(f"Error: {str(e)}")
api_except ==
    /\ pc = "api_except"
    /\ printed' = Append(printed, Line("error", "create", caught))
    /\ ret' = NoneValue
    /\ pc' = "done"
    /\ UNCHANGED <<others, script, caught, raised, remote, data, capture>>

test_api ==
    \/ api_post
    \/ api_handle
    \/ api_fonts
    \/ api_except

\* ------------------------------------------- test_export_after_create.py
\* lines 24-33: the checks between the POST and the use of the id
tea_outcome(r) ==
    IF r.status # 200 THEN [exc |-> "none", created |-> FALSE]
    ELSE IF ~r.body.json THEN [exc |-> "ValueError", created |-> FALSE]
    ELSE IF r.body.top # "object"
        THEN [exc |-> "AttributeError", created |-> FALSE]
    ELSE IF r.body.hasResult /\ ~r.body.resultDict
        THEN [exc |-> "AttributeError", created |-> FALSE]
    ELSE IF ~r.body.success THEN [exc |-> "none", created |-> FALSE]
    ELSE IF r.body.id = NoId THEN [exc |-> "KeyError", created |-> FALSE]
    ELSE [exc |-> "none", created |-> TRUE]

\* requests.post(web_app_url, json=payload, timeout=30), outside any try
plain_post(here, next) ==
    /\ pc = here
    /\ inflight' = Call("POST", "create", PostTimeout)
    /\ events' = Append(events, Ev("send", "create", PostTimeout))
    /\ pc' = next
    /\ UNCHANGED <<others, script, caught, ret, raised, printed, response,
                   data, capture>>

\* the early returns after the POST, then presentation_id = ...
plain_handle(here, next, o) ==
    /\ pc = here
    /\ IF o.exc # "none"
       THEN /\ Raise(o.exc)
            /\ UNCHANGED <<events, printed, ret, presentation_id>>
       ELSE /\ printed' = Append(printed,
                  Line(IF o.created THEN "created" ELSE "failed",
                       "create", "none"))
            /\ events' = Append(events, Ev("handled", "create",
                                            response.status))
            /\ UNCHANGED <<caught, raised>>
            /\ IF o.created
               THEN /\ presentation_id' = response.body.id
                    /\ pc' = next
                    /\ ret' = ret
               ELSE /\ ret' = NoneValue
                    /\ pc' = "done"
                    /\ UNCHANGED presentation_id
    /\ UNCHANGED <<others, script, inflight, response, capture, presentations,
                   presentation_data, screenshot_results>>

\* time.sleep(secs) while sharing / publishing propagates
plain_sleep(here, next, secs) ==
    /\ pc = here
    /\ events' = Append(events, Ev("sleep", "propagate", secs))
    /\ pc' = next
    /\ UNCHANGED <<others, script, caught, ret, raised, printed, inflight,
                   response, data, capture>>

\* requests.get(url, timeout=30)
plain_get(here, next, tag) ==
    /\ pc = here
    /\ inflight' = Call("GET", tag, GetTimeout)
    /\ events' = Append(events, Ev("send", tag, GetTimeout))
    /\ pc' = next
    /\ UNCHANGED <<others, script, caught, ret, raised, printed, response,
                   data, capture>>

tea_post == plain_post("tea_post", "tea_wait")
tea_handle == plain_handle("tea_handle", "tea_sleep", tea_outcome(response))
tea_sleep == plain_sleep("tea_sleep", "tea_get", ExportDelay)
tea_get == plain_get("tea_get", "tea_export_wait", "export_png")

\* lines 50-71: save the exported image, or report the failed export
tea_export_handle ==
    /\ pc = "tea_export_handle"
    /\ \/ /\ events' = Append(events,
                              Ev("handled", "export_png", response.status))
          /\ IF response.status = 200
             THEN /\ files' = Written(files,
                                      Path("export_test", presentation_id),
                                      run, response.size)
                  /\ printed' = Append(printed,
                                       Line("saved", "export_png", "none"))
                  /\ ret' = PathValue(Path("export_test", presentation_id))
             ELSE /\ printed' = Append(printed,
                                       Line("failed", "export_png", "none"))
                  /\ ret' = NoneValue
                  /\ UNCHANGED files
          /\ pc' = "done"
          /\ UNCHANGED <<caught, raised>>
       \/ /\ response.status = 200
          /\ \E fs \in {files, Written(files,
                                       Path("export_test", presentation_id),
                                       run, 0)} :
                files' = fs
          /\ Raise("OSError")
          /\ UNCHANGED <<events, printed, ret>>
    /\ UNCHANGED <<others, script, inflight, response, data, driver, launches,
                   steps, timestamp>>

test_export_after_create ==
    \/ tea_post
    \/ tea_handle
    \/ tea_sleep
    \/ tea_get
    \/ tea_export_handle

\* ------------------------------------------------------ test_pub_access.py
\* lines 23-32: the checks between the POST and the use of the id
tpa_outcome(r) ==
    IF r.status # 200 THEN [exc |-> "none", created |-> FALSE]
    ELSE IF ~r.body.json THEN [exc |-> "ValueError", created |-> FALSE]
    ELSE IF r.body.top # "object"
        THEN [exc |-> "AttributeError", created |-> FALSE]
    ELSE IF r.body.hasResult /\ ~r.body.resultDict
        THEN [exc |-> "AttributeError", created |-> FALSE]
    ELSE IF ~r.body.success THEN [exc |-> "none", created |-> FALSE]
    ELSE IF r.body.id = NoId THEN [exc |-> "KeyError", created |-> FALSE]
    ELSE [exc |-> "none", created |-> TRUE]

tpa_post == plain_post("tpa_post", "tpa_wait")
tpa_handle == plain_handle("tpa_handle", "tpa_sleep", tpa_outcome(response))
tpa_sleep == plain_sleep("tpa_sleep", "tpa_get", PublishDelay)
\* try: pub_response = requests.get(pub_url, timeout=30)
tpa_get == plain_get("tpa_get", "tpa_pub_wait", "pub")

\* lines 45-68: report what the /pub URL answered
tpa_pub_handle ==
    /\ pc = "tpa_pub_handle"
    /\ events' = Append(events, Ev("handled", "pub", response.status))
    /\ printed' = Append(printed,
          Line(IF response.status = 200 THEN "accessible" ELSE "failed",
               "pub", "none"))
    /\ ret' = NoneValue
    /\ pc' = "done"
    /\ UNCHANGED <<others, script, caught, raised, inflight, response, data,
                   capture>>

\* except Exception as e: print(f"Error testing /pub URL: {e}")
tpa_except ==
    /\ pc = "tpa_except"
    /\ printed' = Append(printed, Line("error", "pub", caught))
    /\ ret' = NoneValue
    /\ pc' = "done"
    /\ UNCHANGED <<others, script, caught, raised, remote, data, capture>>

test_pub_access ==
    \/ tpa_post
    \/ tpa_handle
    \/ tpa_sleep
    \/ tpa_get
    \/ tpa_pub_handle
    \/ tpa_except

\* ---------------------------- scripts/get_before_after_authenticated.py
\* lines 26-63: the checks after the POST and the prints that index the
\* comparison; complete: result carries every key the prints index
gba_outcome(r, complete) ==
    IF r.status # 200 THEN [exc |-> "none", created |-> FALSE]
    ELSE IF ~r.body.json THEN [exc |-> "ValueError", created |-> FALSE]
    ELSE IF r.body.top # "object"
        THEN [exc |-> "AttributeError", created |-> FALSE]
    ELSE IF r.body.hasResult /\ ~r.body.resultDict
        THEN [exc |-> "AttributeError", created |-> FALSE]
    ELSE IF ~r.body.success THEN [exc |-> "none", created |-> FALSE]
    ELSE IF ~complete THEN [exc |-> "KeyError", created |-> FALSE]
    ELSE [exc |-> "none", created |-> TRUE]

\* the request that downloads a thumbnail
gba_tag(type) ==
    IF type = "BEFORE" THEN "before_thumbnail" ELSE "after_thumbnail"

\* the file a thumbnail is saved to
gba_thumbnail_path(type) ==
    IF type = "BEFORE" THEN Path("before_thumbnail.jpg", 0)
    ELSE Path("after_thumbnail.jpg", 0)

\* requests.post(web_app_url, json={'fn': 'createFontComparison', ...},
\*               timeout=60)
gba_post ==
    /\ pc = "gba_post"
    /\ inflight' = Call("POST", "comparison", ComparisonTimeout)
    /\ events' = Append(events, Ev("send", "comparison", ComparisonTimeout))
    /\ pc' = "gba_wait"
    /\ UNCHANGED <<others, script, caught, ret, raised, printed, response,
                   data, capture>>

\* the early returns, comparison_data = result['result'], the prints; the
\* body says which of the two presentations carries a thumbnailLink
gba_handle ==
    /\ pc = "gba_handle"
    /\ \E complete \in BOOLEAN, tb \in BOOLEAN, ta \in BOOLEAN :
         LET o == gba_outcome(response, complete) IN
         IF o.exc # "none"
         THEN /\ Raise(o.exc)
              /\ UNCHANGED <<events, printed, ret, comparison_data, todo>>
         ELSE /\ printed' = Append(printed,
                    Line(IF o.created THEN "created" ELSE "failed",
                         "comparison", "none"))
              /\ events' = Append(events, Ev("handled", "comparison",
                                              response.status))
              /\ UNCHANGED <<caught, raised>>
              /\ IF o.created
                 THEN /\ comparison_data' =
                           [kind |-> "comparison",
                            thumbnailLink |-> [BEFORE |-> tb, AFTER |-> ta]]
                      /\ todo' = <<"BEFORE", "AFTER">>
                      /\ pc' = "gba_loop"
                      /\ ret' = ret
                 ELSE /\ ret' = NoneValue
                      /\ pc' = "done"
                      /\ UNCHANGED <<comparison_data, todo>>
    /\ UNCHANGED <<world, extraction, statuses, script, inflight, response,
                   data, capture>>

\* for pres_type, pres_data in [...]: thumbnail_url = ...; after the loop
\* the closing prints and return comparison_data
gba_loop ==
    /\ pc = "gba_loop"
    /\ IF todo = <<>>
       THEN /\ printed' = Append(printed, Line("complete", "comparison",
                                               "none"))
            /\ ret' = comparison_data
            /\ pc' = "done"
            /\ UNCHANGED <<inflight, events, todo>>
       ELSE IF ~comparison_data.thumbnailLink[Head(todo)]
       THEN /\ printed' = Append(printed, Line("unavailable", Head(todo),
                                               "none"))
            /\ todo' = Tail(todo)
            /\ pc' = "gba_loop"
            /\ UNCHANGED <<inflight, events, ret>>
       ELSE /\ inflight' = Call("GET", gba_tag(Head(todo)), GetTimeout)
            /\ events' = Append(events, Ev("send", gba_tag(Head(todo)),
                                            GetTimeout))
            /\ pc' = "gba_thumb_wait"
            /\ UNCHANGED <<printed, ret, todo>>
    /\ UNCHANGED <<world, extraction, comparison_data, statuses, script,
                   caught, raised, response, data, capture>>

\* lines 75-85: save the thumbnail, or report the failed download
gba_thumb_handle ==
    /\ pc = "gba_thumb_handle"
    /\ \/ /\ events' = Append(events, Ev("handled", gba_tag(Head(todo)),
                                          response.status))
          /\ IF response.status = 200
             THEN /\ files' = Written(files, gba_thumbnail_path(Head(todo)),
                                      run, response.size)
                  /\ printed' = Append(printed,
                                       Line("saved", Head(todo), "none"))
             ELSE /\ printed' = Append(printed,
                                       Line("failed", Head(todo), "none"))
                  /\ UNCHANGED files
          /\ todo' = Tail(todo)
          /\ pc' = "gba_loop"
          /\ UNCHANGED <<caught, raised>>
       \/ /\ response.status = 200
          /\ \E fs \in {files, Written(files, gba_thumbnail_path(Head(todo)),
                                       run, 0)} :
                files' = fs
          /\ Raise("OSError")
          /\ UNCHANGED <<events, printed, todo>>
    /\ UNCHANGED <<world, extraction, comparison_data, statuses, script, ret,
                   inflight, response, data, driver, launches, steps,
                   timestamp>>

\* except Exception as e: print(f"... thumbnail download error: {e}")
gba_thumb_except ==
    /\ pc = "gba_thumb_except"
    /\ printed' = Append(printed, Line("error", Head(todo), caught))
    /\ todo' = Tail(todo)
    /\ pc' = "gba_loop"
    /\ UNCHANGED <<world, extraction, comparison_data, statuses, script,
                   caught, ret, raised, remote, data, capture>>

get_before_after_authenticated ==
    \/ gba_post
    \/ gba_handle
    \/ gba_loop
    \/ gba_thumb_handle
    \/ gba_thumb_except

\* ------------------------------------------ scripts/simple_screenshot.py
\* driver = None, before the try block
ss_entry ==
    /\ pc = "ss_entry"
    /\ driver' = "None"
    /\ pc' = "ss_launch"
    /\ UNCHANGED <<others, script, caught, ret, raised, printed, remote, data,
                   launches, steps, timestamp, files>>

ss_launch == drv_launch("ss_launch", "ss_makedirs")
ss_makedirs == drv_makedirs("ss_makedirs", "ss_get")
ss_get == drv_get("ss_get", "ss_sleep", Url("pub", KnownId))
ss_sleep == drv_sleep("ss_sleep", "ss_save", Url("pub", KnownId), SimpleSettle)
ss_save ==
    drv_save("ss_save", "ss_print", Url("pub", KnownId),
             Path("working_presentation", timestamp))
ss_print == drv_print("ss_print", "ss_return", "simple")

\* return pub_screenshot_path
ss_return ==
    /\ pc = "ss_return"
    /\ ret' = PathValue(Path("working_presentation", timestamp))
    /\ pc' = "ss_finally"
    /\ UNCHANGED <<others, script, caught, raised, printed, remote, data,
                   capture>>

\* except Exception as e: print(f"Screenshot error: {str(e)}"); return None
ss_except ==
    /\ pc = "ss_except"
    /\ printed' = Append(printed, Line("error", "simple", caught))
    /\ ret' = NoneValue
    /\ pc' = "ss_finally"
    /\ UNCHANGED <<others, script, caught, raised, remote, data, capture>>

\* finally: if driver: driver.quit()
ss_finally ==
    /\ pc = "ss_finally"
    /\ driver' = IF driver = "open" THEN "quit" ELSE driver
    /\ pc' = "done"
    /\ UNCHANGED <<others, script, caught, ret, raised, printed, remote, data,
                   launches, steps, timestamp, files>>

simple_screenshot ==
    \/ ss_entry
    \/ ss_launch
    \/ ss_makedirs
    \/ ss_get
    \/ ss_sleep
    \/ ss_save
    \/ ss_print
    \/ ss_return
    \/ ss_except
    \/ ss_finally

\* ------------------------------------------ scripts/export_screenshot.py
ex_path(format) ==
    IF format = "png" THEN Path("font_demo_export.png", timestamp)
    ELSE Path("font_demo_export.svg", timestamp)

\* os.makedirs('screenshots', exist_ok=True); timestamp = datetime.now()...
\* before the try block. Nothing in this script waits, so a run started
\* within the same second reads the same stamp.
ex_makedirs ==
    /\ pc = "ex_makedirs"
    /\ \/ /\ \E t \in (IF clock = 0 THEN 1 ELSE clock)..MaxTime :
                /\ timestamp' = t
                /\ clock' = t
          /\ pc' = "ex_png_get"
          /\ UNCHANGED <<caught, raised>>
       \/ /\ Raise("makedirs failed")
          /\ UNCHANGED <<timestamp, clock>>
    /\ UNCHANGED <<run, locals, extraction, script, ret, printed, remote,
                   data, driver, launches, steps, files>>

\* the if/else after each requests.get: the response stays in a local, the
\* content is written only for status 200
\* open() or write() may raise OSError (directory not writable, disk
\* full), leaving no file or an empty one; the except clause takes over
ex_handle(here, next, format) ==
    /\ pc = here
    /\ \/ /\ events' = Append(events, Ev("handled", format, response.status))
          /\ statuses' = Append(statuses, response.status)
          /\ IF response.status = 200
             THEN /\ files' = Written(files, ex_path(format), run,
                                      response.size)
                  /\ printed' = Append(printed,
                                       Line("saved", format, "none"))
             ELSE /\ printed' = Append(printed,
                                       Line("failed", format, "none"))
                  /\ UNCHANGED files
          /\ pc' = next
          /\ UNCHANGED <<caught, raised>>
       \/ /\ response.status = 200
          /\ \E fs \in {files, Written(files, ex_path(format), run, 0)} :
                files' = fs
          /\ Raise("OSError")
          /\ UNCHANGED <<events, statuses, printed>>
    /\ UNCHANGED <<world, extraction, comparison_data, todo, script, ret,
                   inflight, response, data, driver, launches, steps,
                   timestamp>>

ex_png_get == plain_get("ex_png_get", "ex_png_wait", "png")
ex_png_handle == ex_handle("ex_png_handle", "ex_svg_get", "png")
ex_svg_get == plain_get("ex_svg_get", "ex_svg_wait", "svg")
ex_svg_handle == ex_handle("ex_svg_handle", "ex_return", "svg")

\* return {'png_path': png_path if png_response.status_code == 200 else
\*         None, 'svg_path': ...}
ex_return ==
    /\ pc = "ex_return"
    /\ printed' = Append(printed, Line("complete", "export", "none"))
    /\ ret' = [kind |-> "exports",
               png_path |-> IF statuses[1] = 200 THEN ex_path("png")
                            ELSE NoPath,
               svg_path |-> IF statuses[2] = 200 THEN ex_path("svg")
                            ELSE NoPath]
    /\ pc' = "done"
    /\ UNCHANGED <<others, script, caught, raised, remote, data, capture>>

\* except Exception as e: print(f"Export error: {str(e)}"); return None
ex_except ==
    /\ pc = "ex_except"
    /\ printed' = Append(printed, Line("error", "export", caught))
    /\ ret' = NoneValue
    /\ pc' = "done"
    /\ UNCHANGED <<others, script, caught, raised, remote, data, capture>>

export_screenshot ==
    \/ ex_makedirs
    \/ ex_png_get
    \/ ex_png_handle
    \/ ex_svg_get
    \/ ex_svg_handle
    \/ ex_return
    \/ ex_except

\* --------------------------------------------------- test_export_direct.py
\* export_urls, in the order the for loop visits them
ted_formats == <<"PNG", "SVG", "PDF">>

\* export_path = f"screenshots/working_font_demo.{extension}"
ted_path(format) ==
    IF format = "PNG" THEN Path("working_font_demo.png", 0)
    ELSE IF format = "SVG" THEN Path("working_font_demo.svg", 0)
    ELSE Path("working_font_demo.pdf", 0)

\* os.makedirs('screenshots', exist_ok=True), then the loop starts
ted_makedirs ==
    /\ pc = "ted_makedirs"
    /\ \/ /\ todo' = ted_formats
          /\ pc' = "ted_loop"
          /\ UNCHANGED <<caught, raised>>
       \/ /\ Raise("makedirs failed")
          /\ UNCHANGED todo
    /\ UNCHANGED <<world, extraction, comparison_data, statuses, script, ret,
                   printed, remote, data, capture>>

\* for format_name, export_url in export_urls.items():
\*     response = requests.get(export_url, timeout=30)
\* and, after the loop, the closing prints
ted_loop ==
    /\ pc = "ted_loop"
    /\ IF todo = <<>>
       THEN /\ printed' = Append(printed, Line("complete", "export", "none"))
            /\ ret' = NoneValue
            /\ pc' = "done"
            /\ UNCHANGED <<inflight, events>>
       ELSE /\ inflight' = Call("GET", Head(todo), GetTimeout)
            /\ events' = Append(events, Ev("send", Head(todo), GetTimeout))
            /\ pc' = "ted_wait"
            /\ UNCHANGED <<printed, ret>>
    /\ UNCHANGED <<others, script, caught, raised, response, data, capture>>

\* a handler that gives up on the remaining formats at the first refusal
ted_handle_stops ==
    /\ pc = "ted_handle"
    /\ events' = Append(events, Ev("handled", Head(todo), response.status))
    /\ IF response.status = 200
       THEN /\ files' = {f \in files : f.path # ted_path(Head(todo))}
                   \cup {[path |-> ted_path(Head(todo)), run |-> run,
                          size |-> response.size]}
            /\ printed' = Append(printed, Line("saved", Head(todo), "none"))
            /\ todo' = Tail(todo)
       ELSE /\ printed' = Append(printed,
                  Line("failed", Head(todo),
                       IF response.status = 401 THEN "Unauthorized"
                       ELSE "none"))
            /\ todo' = <<>>
            /\ UNCHANGED files
    /\ pc' = "ted_loop"
    /\ UNCHANGED <<world, extraction, comparison_data, statuses, script,
                   caught, ret, raised, inflight, response, data, driver,
                   launches, steps, timestamp>>

\* lines 33-56: save the export, or report the refusal; next format
ted_handle ==
    /\ pc = "ted_handle"
    /\ \/ /\ events' = Append(events,
                              Ev("handled", Head(todo), response.status))
          /\ IF response.status = 200
             THEN /\ files' = Written(files, ted_path(Head(todo)), run,
                                      response.size)
                  /\ printed' = Append(printed,
                                       Line("saved", Head(todo), "none"))
             ELSE /\ printed' = Append(printed,
                        Line("failed", Head(todo),
                             IF response.status = 401 THEN "Unauthorized"
                             ELSE "none"))
                  /\ UNCHANGED files
          /\ todo' = Tail(todo)
          /\ pc' = "ted_loop"
          /\ UNCHANGED <<caught, raised>>
       \/ /\ response.status = 200
          /\ \E fs \in {files, Written(files, ted_path(Head(todo)), run, 0)} :
                files' = fs
          /\ Raise("OSError")
          /\ UNCHANGED <<events, printed, todo>>
    /\ UNCHANGED <<world, extraction, comparison_data, statuses, script, ret,
                   inflight, response, data, driver, launches, steps,
                   timestamp>>

\* except Exception as e: print(f"... export error: {e}"); next format
ted_except ==
    /\ pc = "ted_except"
    /\ printed' = Append(printed, Line("error", Head(todo), caught))
    /\ todo' = Tail(todo)
    /\ pc' = "ted_loop"
    /\ UNCHANGED <<world, extraction, comparison_data, statuses, script,
                   caught, ret, raised, remote, data, capture>>

test_export_direct ==
    \/ ted_makedirs
    \/ ted_loop
    \/ ted_handle
    \/ ted_except

\* ------------------------------------------------------------------ next
Next ==
    \/ \E s \in Scripts : Start(s)
    \/ Restart
    \/ RemoteResponds
    \/ RemoteFaults
    \/ create_font_comparison
    \/ quick_screenshot
    \/ final_screenshot
    \/ debug_screenshot
    \/ screenshot_presentation
    \/ test_api
    \/ test_export_after_create
    \/ test_pub_access
    \/ get_before_after_authenticated
    \/ simple_screenshot
    \/ export_screenshot
    \/ test_export_direct

Spec == Init /\ [][Next]_vars

\* ------------------------------------------- SpecExtractor: the palette
\* The extractor runs in the remote service (fn 'testFontParsing'); the
\* Python clients only send it prompts. Its palette recognition is modelled
\* from the specification: split the URL's last path segment on '-',
\* validate each token as exactly six hex digits, keep the order, and
\* abandon the whole palette at the first token that fails.
HexDigits ==
    {"0", "1", "2", "3", "4", "5", "6", "7", "8", "9",
     "a", "b", "c", "d", "e", "f", "A", "B", "C", "D", "E", "F"}

\* the tokens a URL is made of here: two colours, a short and a long
\* token, a token with a letter outside a-f, and the empty token of "a--b"
TokenPool ==
    {<<"e", "d", "d", "3", "c", "4">>, <<"0", "8", "0", "7", "0", "8">>,
     <<"e", "d", "d", "3", "c">>, <<"e", "d", "d", "3", "c", "4", "0">>,
     <<"e", "d", "g", "3", "c", "4">>, <<>>}

\* what splitting on '-' can give: at least one token
PaletteUrls == UNION {[1..n -> TokenPool] : n \in 1..MaxTokens}

Absent == [kind |-> "absent"]

RECURSIVE IsHex(_)
IsHex(token) ==
    IF token = <<>> THEN TRUE
    ELSE Head(token) \in HexDigits /\ IsHex(Tail(token))

\* a scan that drops the tokens failing validation and keeps the rest
RECURSIVE hex_codes_lenient(_, _)
hex_codes_lenient(tokens, codes) ==
    IF tokens = <<>> THEN [kind |-> "palette", hexCodes |-> codes]
    ELSE IF Len(Head(tokens)) # 6 \/ ~IsHex(Head(tokens))
        THEN hex_codes_lenient(Tail(tokens), codes)
    ELSE hex_codes_lenient(Tail(tokens), Append(codes, Head(tokens)))

\* left-to-right validation; codes: the tokens accepted so far
RECURSIVE hex_codes(_, _)
hex_codes(tokens, codes) ==
    IF tokens = <<>> THEN [kind |-> "palette", hexCodes |-> codes]
    ELSE IF Len(Head(tokens)) # 6 \/ ~IsHex(Head(tokens)) THEN Absent
    ELSE hex_codes(Tail(tokens), Append(codes, Head(tokens)))

extract_palette_lenient(tokens) == hex_codes_lenient(tokens, <<>>)

extract_palette(tokens) == hex_codes(tokens, <<>>)

ExtractInit ==
    /\ script = "SpecExtractor"
    /\ pc = "extract"
    /\ FreshRun
    /\ files = {}
    /\ run = 1
    /\ clock = 0
    /\ palette_url \in PaletteUrls
    /\ palette = Unset

Extract ==
    /\ pc = "extract"
    /\ palette' = extract_palette(palette_url)
    /\ pc' = "done"
    /\ UNCHANGED <<script, caught, ret, raised, printed, remote, data, capture,
                   world, locals, palette_url>>

ExtractNext == Extract

ExtractSpec == ExtractInit /\ [][ExtractNext]_vars

\* ============================================================ properties
\* positions in the history of remote calls
EventsOf(kind, tag) ==
    {i \in DOMAIN events : events[i].ev = kind /\ events[i].tag = tag}

Sent(tag) == EventsOf("send", tag) # {}
Handled(tag) == EventsOf("handled", tag) # {}

\* calls that were sent and have neither returned nor raised yet
Outstanding ==
    Cardinality({i \in DOMAIN events : events[i].ev = "send"})
      - Cardinality({i \in DOMAIN events :
                       events[i].ev \in {"response"} \cup TransportFaults})

\* C1: in create_font_comparison the baseline (BEFORE) request is sent and
\* its response handled strictly before the styled (AFTER) request is
\* sent; the styled request is never first and the two requests are never
\* in flight together.
C1_BaselineBeforeStyled ==
    script = "create_font_comparison" =>
        /\ \A i \in EventsOf("send", "AFTER") :
              /\ \E j \in EventsOf("send", "BEFORE") : j < i
              /\ \E j \in EventsOf("handled", "BEFORE") : j < i
        /\ Outstanding \in {0, 1}
        /\ Cardinality(EventsOf("send", "BEFORE")) <= 1
        /\ Cardinality(EventsOf("send", "AFTER")) <= 1

\* the styled request is in flight after the baseline was handled
C1_Witness ==
    /\ script = "create_font_comparison"
    /\ inflight.tag = "AFTER"
    /\ Handled("BEFORE")

\* the remote service reported the creation as successful
RemoteSucceeded == response.status = 200 /\ response.body.success

CreationSent == Sent("create") \/ Sent("BEFORE") \/ Sent("AFTER")

CaptureAttempted == launches > 0 \/ steps # <<>> \/ driver \in {"open", "quit"}

CapturesOf(url) ==
    {i \in DOMAIN steps : steps[i].op = "capture" /\ steps[i].target = url}

\* C7: no capture is attempted for an artifact whose creation did not
\* succeed (no browser launch, navigation or screenshot), and a created
\* artifact is captured at most once (one browser, one capture per view).
C7_NoCaptureWithoutArtifact ==
    /\ (CreationSent /\ CaptureAttempted) => RemoteSucceeded
    /\ launches <= 1
    /\ \A i \in DOMAIN steps : Cardinality(CapturesOf(steps[i].target)) <= 1

\* main has returned after a failed creation without touching the browser
C7_Witness ==
    /\ script = "screenshot_presentation"
    /\ pc = "done"
    /\ Handled("create")
    /\ ~RemoteSucceeded
    /\ ~CaptureAttempted

\* a transport fault (timeout or unreachable endpoint) hit the call
Faulted(tag) ==
    \E i \in DOMAIN events :
        events[i].ev \in TransportFaults /\ events[i].tag = tag

\* C2: create_font_comparison returns both results regardless of
\* individual failure: however the baseline request fails, the styled
\* request is still sent and the function returns its result; it fails as
\* a whole only when the transport is unreachable for both calls.
C2_ReturnsBothRegardless ==
    (script = "create_font_comparison" /\ pc = "done") =>
        /\ Sent("AFTER")
        /\ raised # "none" => (Faulted("BEFORE") /\ Faulted("AFTER"))
        /\ raised = "none" => ret.kind = "list"

\* the body of a 200 response is not JSON or lacks the expected fields
Malformed(b) ==
    ~b.json \/ b.top # "object" \/ ~b.hasResult \/ ~b.resultDict

\* create_presentation_via_api has finished, one way or the other
sp_create_ended ==
    /\ script = "screenshot_presentation"
    /\ \E i \in DOMAIN events : events[i].ev = "response"
    /\ pc # "sp_handle"

\* C3: a creation call that receives a non-2xx response or a malformed body
\* ends by returning a failure result; no exception escapes the call.
C3_CreationNeverRaises ==
    (sp_create_ended /\ (response.status # 200 \/ Malformed(response.body)))
        => (raised = "none" /\ ~Truthy(presentation_data))

\* C4: a launched browser driver is released (quit) on every exit path of
\* a capture strategy; no strategy ends with a launched driver still open.
C4_DriverReleased ==
    pc = "done" => driver # "open"

\* the priority order of the capture strategies
StrategyOrder == <<"explicit-driver", "managed-driver", "visible-fallback">>

StrategyNames == {StrategyOrder[i] : i \in DOMAIN StrategyOrder}

\* the attempt log: the per-strategy outcome lines of the output
AttemptLog ==
    SelectSeq(printed,
              LAMBDA l : l.line \in {"saved", "error"}
                           /\ l.what \in StrategyNames)

\* C5: a capture, begun with the first strategy, attempts the strategies
\* in the fixed order explicit-driver, managed-driver, visible-fallback; a
\* later strategy starts only after every earlier one has failed, none is
\* attempted twice or after a success, and the capture ends only with a
\* success or with all three tried.
C5_StrategiesInOrder ==
    script = "quick_screenshot" =>
        /\ Len(AttemptLog) <= Len(StrategyOrder)
        /\ \A i \in DOMAIN AttemptLog :
              /\ AttemptLog[i].what = StrategyOrder[i]
              /\ i < Len(AttemptLog) => AttemptLog[i].line = "error"
        /\ pc = "done" =>
              /\ AttemptLog # <<>>
              /\ \/ AttemptLog[Len(AttemptLog)].line = "saved"
                 \/ Len(AttemptLog) = Len(StrategyOrder)

\* C6: when every strategy faults, capture returns the failure of the last
\* strategy (visible-fallback) and the failures of the earlier strategies
\* are all retained, in order, in the attempt log.
C6_LastFailureReturned ==
    (script = "debug_screenshot" /\ pc = "done" /\ ~Truthy(ret)) =>
        /\ Len(AttemptLog) = Len(StrategyOrder)
        /\ \A i \in DOMAIN AttemptLog :
              /\ AttemptLog[i].what = StrategyOrder[i]
              /\ AttemptLog[i].line = "error"
        /\ AttemptLog[Len(AttemptLog)].detail = caught

\* C8: a timeout (or unreachable endpoint) on a blocking remote call is the
\* failure of that step only: the operation is not aborted by an uncaught
\* fault and returns normally.
C8_TimeoutIsStepFailure ==
    (\E i \in DOMAIN events : events[i].ev \in TransportFaults) =>
        /\ raised = "none"
        /\ pc = "done" => ret # Unset

\* C9: every remote call is issued with a bounded timeout, so no call can
\* block forever.
C9_BoundedTimeout ==
    inflight # NoCall => (inflight.bounded /\ inflight.timeout > 0)

\* the error description a creation result carries ("none": it has none)
ErrorOf(v) == IF v.kind = "failure" THEN v.error ELSE "none"

\* the artifact id a creation result carries (NoId: it has none)
IdOf(v) == IF v.kind = "data" THEN v.presentation_id ELSE NoId

\* C10: every creation result carries an artifact id iff the remote body
\* reported result.success = true; the result of a failed creation carries
\* no artifact id and carries an error description.
C10_ResultShape ==
    (script = "screenshot_presentation" /\ presentation_data # Unset) =>
        /\ IdOf(presentation_data) # NoId <=> RemoteSucceeded
        /\ ~RemoteSucceeded => ErrorOf(presentation_data) # "none"

\* the requests that ask the remote service to create presentations
CreationTags == {"create", "BEFORE", "AFTER", "comparison"}

CreationSends ==
    {i \in DOMAIN events :
        events[i].ev = "send" /\ events[i].tag \in CreationTags}

\* C11: one comparison creation sends exactly two creation requests, one
\* per logical creation, whatever the outcomes; a failed request is never
\* re-sent and no creation is sent more than once.
C11_ExactlyTwoCreations ==
    (script \in {"create_font_comparison", "get_before_after_authenticated"}
        /\ pc = "done") =>
        /\ Cardinality(CreationSends) = 2
        /\ \A i \in CreationSends : \A j \in CreationSends :
              events[i].tag = events[j].tag => i = j

\* the settle waits performed before a capture of a target of one kind
SettlesBefore(kind) ==
    {i \in DOMAIN steps :
        steps[i].op = "settle" /\ steps[i].target[1] = kind}

CaptureSteps == {k \in DOMAIN steps : steps[k].op = "capture"}

\* C13: within every capture strategy a capture is taken of a target only
\* after that target was navigated to and its settle wait has elapsed, in
\* that order: navigate, settle, capture.
C13_NavigateSettleCapture ==
    \A k \in CaptureSteps :
        /\ k >= 3
        /\ steps[k - 2].op = "navigate"
        /\ steps[k - 2].target = steps[k].target
        /\ steps[k - 1].op = "settle"
        /\ steps[k - 1].target = steps[k].target
        /\ steps[k - 1].arg > 0

C13_Witness ==
    \E k \in CaptureSteps : \E m \in CaptureSteps :
        /\ m < k
        /\ steps[m].target[1] = "pub"
        /\ steps[k].target[1] = "edit"

\* C14: a capture strategy reports success only when a capture file of
\* non-zero size was actually written; a capture step that writes nothing or
\* a zero-byte file is a failure of the strategy.
C14_SuccessMeansFile ==
    (script \in {"final_screenshot", "simple_screenshot"}
        /\ pc = "done" /\ ret.kind = "path") =>
        \E f \in files : f.path = ret.path /\ f.run = run /\ f.size > 0

\* a file written by the current run
WrittenNow(path) == \E f \in files : f.path = path /\ f.run = run

\* C15: every top-level operation returns a structured result describing
\* partial success: when a sub-step fails after an earlier one succeeded (the
\* edit capture after the public capture, one export format after another)
\* the result still reports the sub-steps that succeeded.
C15_PartialSuccessReported ==
    /\ (script = "screenshot_presentation" /\ pc = "done"
            /\ WrittenNow(Path("font_demo_public", timestamp))) =>
          /\ screenshot_results.kind = "paths"
          /\ screenshot_results.pub_screenshot =
                Path("font_demo_public", timestamp)
    /\ (script = "export_screenshot" /\ pc = "done"
            /\ WrittenNow(ex_path("png"))) =>
          /\ ret.kind = "exports"
          /\ ret.png_path = ex_path("png")

\* the export requests, and the file each export is saved to
ExportTags == {"export_png", "PNG", "SVG", "PDF", "png", "svg"}

ExportPath(tag) ==
    IF tag = "export_png" THEN Path("export_test", presentation_id)
    ELSE IF tag \in {"png", "svg"} THEN ex_path(tag)
    ELSE ted_path(tag)

\* the exports of this run that were answered with a status other than 200
Unavailable ==
    {t \in ExportTags :
        \E i \in DOMAIN events :
            /\ events[i].ev = "handled"
            /\ events[i].tag = t
            /\ events[i].arg # 200}

\* C16: an export answered with a non-200 status is terminal for that
\* export: it is reported, its URL is not requested again in the run, no
\* file is written for it, and the remaining formats are still processed.
C16_UnavailableIsTerminal ==
    /\ \A t \in Unavailable :
          /\ Cardinality(EventsOf("send", t)) = 1
          /\ ~WrittenNow(ExportPath(t))
          /\ \E i \in DOMAIN printed :
                printed[i].line = "failed" /\ printed[i].what = t
    /\ (script = "test_export_direct" /\ pc = "done" /\ Unavailable # {}) =>
          \A k \in DOMAIN ted_formats :
              Cardinality(EventsOf("send", ted_formats[k])) = 1
    /\ (script = "export_screenshot" /\ pc \in {"ex_return", "done"}
            /\ "png" \in Unavailable /\ raised = "none") =>
          Cardinality(EventsOf("send", "svg")) = 1

C16_Witness ==
    /\ script = "test_export_direct"
    /\ pc = "done"
    /\ "PNG" \in Unavailable
    /\ WrittenNow(ted_path("SVG"))
    /\ "PDF" \in Unavailable

\* the entry points that capture the rendered page through a browser
CaptureScripts ==
    {"quick_screenshot", "final_screenshot", "debug_screenshot",
     "simple_screenshot", "screenshot_presentation"}

\* a step of a capture script does not replace the file of an earlier run
KeepsEarlierFiles ==
    script \in CaptureScripts =>
        \A f \in files : \A g \in files' :
            (g.path = f.path) => (g.run = f.run)

\* C17: each capture attempt writes its own file, named from the run's
\* timestamp and the strategy or role tag: two different attempts never
\* write the same path, so no attempt replaces the file of another.
C17_OwnFilePerAttempt == [][KeepsEarlierFiles]_vars

\* the lines test_api printed about an element of the result
LinesAbout(name) ==
    SelectSeq(printed, LAMBDA l : l.what = name)

SixHex(token) == token \in [1..6 -> HexDigits]

\* C19: palette extraction is all-or-nothing and order-preserving: when
\* every dash-separated token is exactly six hex digits the palette's
\* hexCodes are those tokens in URL order; when any token is not, the
\* palette is absent, never partly filled and never empty.
C19_AllOrNothing ==
    (script = "SpecExtractor" /\ pc = "done") =>
        /\ (\A i \in DOMAIN palette_url : SixHex(palette_url[i])) =>
              palette = [kind |-> "palette", hexCodes |-> palette_url]
        /\ (\E i \in DOMAIN palette_url : ~SixHex(palette_url[i])) =>
              palette = Absent
        /\ palette.kind = "palette" => palette.hexCodes # <<>>

C19_Witness ==
    /\ script = "SpecExtractor"
    /\ pc = "done"
    /\ Len(palette_url) = 3
    /\ SixHex(palette_url[1])
    /\ ~SixHex(palette_url[2])
    /\ SixHex(palette_url[3])
    /\ palette = Absent

\* the remote service reported the creation asked for by request tag
Created(tag) == EventsOf("created", tag) # {}

\* C20: whatever the outcomes of the two creation requests, the list that
\* create_font_comparison returns holds only artifacts the remote service
\* created, at most one BEFORE and one AFTER entry, BEFORE first; it has two
\* entries exactly when both creations succeeded.
C20_ReturnedList ==
    (script = "create_font_comparison" /\ ret.kind = "list") =>
        LET list == ret.val IN
        /\ \A k \in DOMAIN list :
              /\ list[k].type \in {"BEFORE", "AFTER"}
              /\ \E i \in EventsOf("created", list[k].type) :
                    events[i].arg = list[k].id
              /\ \A m \in DOMAIN list : list[m].type = list[k].type => m = k
              /\ list[k].type = "BEFORE" => k = 1
        /\ Len(list) = 2 <=> (Created("BEFORE") /\ Created("AFTER"))

C20_Witness ==
    /\ script = "create_font_comparison"
    /\ ret.kind = "list"
    /\ Len(ret.val) = 1
    /\ ret.val[1].type = "AFTER"
    /\ Handled("BEFORE")

\* the export of this format was answered, with status 200
Answered(format) == EventsOf("response", format) # {}

AnsweredOk(format) ==
    \E i \in EventsOf("response", format) : events[i].arg = 200

\* in export_presentation_screenshots a file is written for a format only
\* when that format's response status is 200
ex_WrittenOnlyOn200 ==
    script = "export_screenshot" =>
        \A format \in {"png", "svg"} :
            WrittenNow(ex_path(format)) => AnsweredOk(format)

\* in the returned dict png_path / svg_path is set exactly for the formats
\* whose response status was 200
ex_PathsMatchStatuses ==
    (script = "export_screenshot" /\ ret.kind = "exports") =>
        /\ ret.png_path # NoPath <=> AnsweredOk("png")
        /\ ret.svg_path # NoPath <=> AnsweredOk("svg")

\* C21: in export_presentation_screenshots the SVG export is attempted
\* whatever HTTP status the PNG export returned, a file is written for a
\* format only when that format's response status is 200, and in the
\* returned result png_path / svg_path is non-null exactly for the formats
\* whose response status was 200.
C21_ExportOutcome ==
    /\ (script = "export_screenshot" /\ pc = "done" /\ Answered("png")) =>
          Sent("svg")
    /\ ex_WrittenOnlyOn200
    /\ ex_PathsMatchStatuses

====
